---- MODULE Spec2Model ----
(***************************************************************************)
(* The evaluation core of the Eve runtime (src/src/runtime/runtime.ts):    *)
(* Database, Evaluation, the evaluation queue, the deferred drain and the  *)
(* fixpoint driver.  Every handler of the program (an executeActions       *)
(* call, one deferred drain, one onRemoteChanges delivery) is one action;  *)
(* a handler is computed by operators over a record `w` of the whole       *)
(* program state, one operator per method of the source.  The events of    *)
(* the handler that ran last are kept, in order, in the history variable   *)
(* `log`.                                                                  *)
(***************************************************************************)
EXTENDS Integers, Sequences, FiniteSets, TLC

VARIABLES
  queued,            \* Evaluation.queued
  currentEvaluation, \* Evaluation.currentEvaluation
  evaluationQueue,   \* Evaluation.evaluationQueue
  databases,         \* Evaluation.databases
  databaseNames,     \* Evaluation.databaseNames
  nameToDatabase,    \* Evaluation.nameToDatabase
  multiIndex,        \* Evaluation.multiIndex: name -> the database whose index it is
  evaluations,       \* Database.evaluations
  index,             \* Database.index: the triples of each database
  ticks,             \* the callbacks handed to nextTick and not yet run
  log,               \* history: the events of the handler that ran last
  started,           \* history: the items each evaluation has started, in order
  enq,               \* history: the number of items each evaluation was handed
  ended,             \* history: the net delta of the fixpoint the last handler ended
  calls,             \* the number of executeActions calls made from outside
  deliveries,        \* the number of onRemoteChanges deliveries made
  regs               \* the number of registerDatabase / unregisterDatabase calls made

vars == <<queued, currentEvaluation, evaluationQueue, databases, databaseNames,
          nameToDatabase, multiIndex, evaluations, index, ticks, log, started,
          enq, ended, calls, deliveries, regs>>

-----------------------------------------------------------------------------
(* Constants of the program and bounds of the model *)

MAX_ROUNDS == 300

MaxCalls == 2
MaxDeliveries == 1
MaxRegs == 3

Evals == {"E1", "E2"}
DBs == {"db1", "db2"}
Names == {"shared", "other"}
None == "none"

\* The entity every fact of the model is about.
Ent == "e1"

\* A fact is the pair <<attribute, value>> of the entity Ent.
P == <<"tag", 0>>
H == <<"kind", 0>>
T == <<"flip", 0>>
R == <<"remote", 0>>
X == <<"boom", 0>>
Q == <<"note", 0>>
M(k) == <<"m", k>>

ADDED == 1
REMOVED == -1

-----------------------------------------------------------------------------
(* Sequence helpers *)

SeqToSet(s) == {s[i] : i \in 1..Len(s)}
IndexOf(s, x) == IF \E i \in 1..Len(s) : s[i] = x
                 THEN CHOOSE i \in 1..Len(s) : s[i] = x /\ \A j \in 1..(i-1) : s[j] # x
                 ELSE 0
RemoveAt(s, i) == SubSeq(s, 1, i-1) \o SubSeq(s, i+1, Len(s))

-----------------------------------------------------------------------------
(* The change set (./changes): staged entries, the round counter, the      *)
(* sticky changed flag, and the net delta of all the commits made so far.  *)

NewChanges == [round |-> 0, changed |-> FALSE, staged |-> <<>>, final |-> <<>>]

\* changes.store / changes.unstore: stage +1 / -1 for a fact of a named database
ChStore(c, scope, f, n) ==
  [c EXCEPT !.staged = Append(@, [scope |-> scope, f |-> f, n |-> n, count |-> 1])]
ChUnstore(c, scope, f, n) ==
  [c EXCEPT !.staged = Append(@, [scope |-> scope, f |-> f, n |-> n, count |-> -1])]

\* changes.nextRound
ChNextRound(c) == [c EXCEPT !.round = @ + 1, !.changed = FALSE]

\* changes.mergeRound: fold another change set's pending entries into this one
ChMergeRound(c, other) == [c EXCEPT !.staged = @ \o other.staged]

\* the net multiplicity staged for one fact of one database
ChNet(c, scope, f) ==
  Cardinality({j \in 1..Len(c.staged) :
     c.staged[j].scope = scope /\ c.staged[j].f = f /\ c.staged[j].count = 1})
  - Cardinality({j \in 1..Len(c.staged) :
     c.staged[j].scope = scope /\ c.staged[j].f = f /\ c.staged[j].count = -1})

\* the net delta of the whole change set, updated by one change; an entry
\* whose changes cancel is dropped
ChFinalAdd(final, scope, f, n, change) ==
  IF \E i \in 1..Len(final) : final[i].scope = scope /\ final[i].f = f
  THEN LET i == CHOOSE i \in 1..Len(final) : final[i].scope = scope /\ final[i].f = f
       IN IF final[i].net + change = 0
          THEN RemoveAt(final, i)
          ELSE [final EXCEPT ![i].net = @ + change]
  ELSE Append(final, [scope |-> scope, f |-> f, n |-> n, net |-> change])

\* changes.commit, from staged entry i on.  acc = [idx, delta, final]: the
\* indexes, the flat six-wide delta and the net delta so far.  mi is the
\* multi-index (name -> database, or None).
RECURSIVE ChCommitFrom(_, _, _, _)
ChCommitFrom(c, mi, i, acc) ==
  IF i > Len(c.staged) THEN acc
  ELSE
    LET s == c.staged[i]
        first == \A j \in 1..(i-1) :
                   ~(c.staged[j].scope = s.scope /\ c.staged[j].f = s.f)
        d == mi[s.scope]
        net == ChNet(c, s.scope, s.f)
        change == IF d = None \/ ~first THEN 0
                  ELSE IF net > 0 /\ s.f \notin acc.idx[d] THEN ADDED
                  ELSE IF net < 0 /\ s.f \in acc.idx[d] THEN REMOVED
                  ELSE 0
    IN IF change = 0 THEN ChCommitFrom(c, mi, i + 1, acc)
       ELSE ChCommitFrom(c, mi, i + 1,
              [idx |-> [acc.idx EXCEPT ![d] =
                          IF change = ADDED THEN @ \cup {s.f} ELSE @ \ {s.f}],
               delta |-> acc.delta \o <<change, Ent, s.f[1], s.f[2], s.n, c.round>>,
               final |-> ChFinalAdd(acc.final, s.scope, s.f, s.n, change)])

\* changes.commit: [changes, idx, commit]
ChCommit(c, mi, idx) ==
  LET acc == ChCommitFrom(c, mi, 1, [idx |-> idx, delta |-> <<>>, final |-> c.final])
  IN [changes |-> [c EXCEPT !.staged = <<>>,
                            !.changed = @ \/ Len(acc.delta) > 0,
                            !.final = acc.final],
      idx |-> acc.idx,
      commit |-> acc.delta]

\* changes.toCommitted(scopes): the flat net delta of the named databases
RECURSIVE ChToCommittedFrom(_, _, _)
ChToCommittedFrom(c, scopes, i) ==
  IF i > Len(c.final) THEN <<>>
  ELSE LET s == c.final[i]
       IN (IF s.scope \in scopes /\ s.net # 0
           THEN <<(IF s.net > 0 THEN ADDED ELSE REMOVED), Ent, s.f[1], s.f[2], s.n, c.round>>
           ELSE <<>>) \o ChToCommittedFrom(c, scopes, i + 1)
ChToCommitted(c, scopes) == ChToCommittedFrom(c, scopes, 1)

-----------------------------------------------------------------------------
(* The blocks (./block) and the actions (./actions) of the program under   *)
(* evaluation.  The checker of a block accepts a changed triple by its     *)
(* attribute.  All the blocks read and write the database named "shared".  *)

CountLimit == MAX_ROUNDS - 1

Block(id, attrs, kind) ==
  [id |-> id, dormant |-> FALSE, remote |-> (kind = "remote"), attrs |-> attrs, kind |-> kind]

bDerive == Block("derive", {"tag"}, "derive")   \* tag   -> stores kind
bFlip == Block("flip", {"flip"}, "flip")        \* flip  -> removes it / adds it back
bCount == Block("count", {"m"}, "count")        \* m = k -> m = k+1 while k < CountLimit
bRemote == Block("remote", {"remote"}, "remote")\* a RemoteBlock
bFail == Block("fail", {"boom"}, "fail")        \* execute throws
bDormant == [Block("dormant", {"tag", "note"}, "derive") EXCEPT !.dormant = TRUE]
bSilent == Block("silent", {"note"}, "derive")  \* a block of a database that does not execute

\* Database.blocks and Database.nonExecuting
DbBlocks(d) ==
  IF d = "db1" THEN <<bDerive, bFlip, bCount, bRemote, bFail, bDormant>> ELSE <<bSilent>>
DbNonExecuting(d) == d = "db2"

\* checker.check(index, change, tags, e, a, v)
CheckerCheck(b, change, e, a, v) == a \in b.attrs

\* block.execute(multiIndex, changes) of a block that does not throw:
\* the change set with what the block stages, given the facts it sees
BlockExecute(b, c, visible) ==
  CASE b.kind = "derive" -> IF P \in visible THEN ChStore(c, "shared", H, b.id) ELSE c
    [] b.kind = "flip" -> IF T \in visible THEN ChUnstore(c, "shared", T, b.id)
                          ELSE ChStore(c, "shared", T, b.id)
    [] b.kind = "count" ->
         LET ks == {f[2] : f \in {g \in visible : g[1] = "m" /\ g[2] < CountLimit}}
         IN IF ks = {} THEN c
            ELSE LET k == CHOOSE k \in ks : \A j \in ks : j <= k
                 IN ChStore(ChUnstore(c, "shared", M(k), b.id), "shared", M(k + 1), b.id)
    [] OTHER -> c

\* An action: store one fact into a named database, or fail.
Store(scope, f) == [kind |-> "store", scope |-> scope, f |-> f]
FailAction == [kind |-> "fail", scope |-> None, f |-> Q]

\* The executeActions calls made from outside: the actions and the callback
\* ("none": no callback; "noop": a callback that does nothing; "requeue": a
\* callback that calls executeActions itself).
Call(actions, callback) == [actions |-> actions, callback |-> callback]
Inputs ==
  { Call(<<Store("shared", P)>>, "none"),
    Call(<<Store("shared", P)>>, "requeue"),
    Call(<<Store("shared", P), Store("other", Q)>>, "noop"),
    Call(<<Store("other", Q)>>, "noop"),
    Call(<<>>, "noop"),
    Call(<<Store("shared", T)>>, "noop"),
    Call(<<Store("shared", M(0))>>, "noop"),
    Call(<<Store("shared", R)>>, "noop"),
    Call(<<Store("shared", X)>>, "noop"),
    Call(<<Store("shared", P), FailAction>>, "noop") }

\* what the "requeue" callback hands to executeActions
RequeuedActions == <<Store("other", Q)>>

-----------------------------------------------------------------------------
(* The program state as one record, and the history of the running handler *)

World ==
  [queued |-> queued, currentEvaluation |-> currentEvaluation,
   evaluationQueue |-> evaluationQueue, databases |-> databases,
   databaseNames |-> databaseNames, nameToDatabase |-> nameToDatabase,
   multiIndex |-> multiIndex, evaluations |-> evaluations, index |-> index,
   ticks |-> ticks, log |-> log, started |-> started, enq |-> enq,
   ended |-> ended, exc |-> None]

Event(ev, r, x) == [ev |-> ev, r |-> r, x |-> x]
Emit(w, ev, r, x) == [w EXCEPT !.log = Append(@, Event(ev, r, x))]

\* a throw: the exception propagates to the caller of the handler
Throw(w, kind) == [Emit(w, "throw", 0, kind) EXCEPT !.exc = kind]

\* changes.changed, as a commit event records it
Flag(c) == IF c.changed THEN "changed" ELSE "quiet"

\* waitingFor: undefined, or the block ids whose value is true
Undef == [defined |-> FALSE, ids |-> {}]
EmptyMap == [defined |-> TRUE, ids |-> {}]

\* currentEvaluation === undefined
NoEvaluation ==
  [type |-> "undefined", changes |-> NewChanges, callback |-> "none", user |-> "none",
   waitingFor |-> Undef, waitingCount |-> 0, seq |-> 0]
IsSet(ce) == ce.type # "undefined"

-----------------------------------------------------------------------------
(* Database and the registration methods of Evaluation *)

\* Database.register
DbRegister(w, d, e) ==
  IF IndexOf(w.evaluations[d], e) = 0
  THEN [w EXCEPT !.evaluations[d] = Append(@, e)]
  ELSE w

\* a registration that takes over a name that is in use
RegisterDatabaseOverwrite(w, e, name, d) ==
  DbRegister([w EXCEPT !.databases[e] = Append(@, d),
                       !.databaseNames[e][d] = name,
                       !.nameToDatabase[e][name] = d,
                       !.multiIndex[e][name] = d], d, e)

\* Evaluation.registerDatabase
RegisterDatabase(w, e, name, d) ==
  IF w.nameToDatabase[e][name] # None
  THEN Throw(w, "Error")
  ELSE DbRegister([w EXCEPT !.databases[e] = Append(@, d),
                            !.databaseNames[e][d] = name,
                            !.nameToDatabase[e][name] = d,
                            !.multiIndex[e][name] = d], d, e)

\* Database.unregister
DbUnregister(w, d, e) ==
  LET i == IndexOf(w.evaluations[d], e)
  IN IF i > 0
     THEN [w EXCEPT !.evaluations[d] = RemoveAt(@, i)]
     ELSE Throw(w, "Error")

\* databases.splice(databases.indexOf(db), 1): an index of -1 removes the last
Splice(dbs, d) ==
  IF IndexOf(dbs, d) > 0 THEN RemoveAt(dbs, IndexOf(dbs, d))
  ELSE SubSeq(dbs, 1, Len(dbs) - 1)

\* Evaluation.unregisterDatabase
UnregisterDatabase(w, e, name) ==
  LET d == w.nameToDatabase[e][name]
  IN IF d = None THEN w
     ELSE DbUnregister([w EXCEPT !.nameToDatabase[e][name] = None,
                                 !.databases[e] = Splice(@, d),
                                 !.databaseNames[e][d] = None,
                                 !.multiIndex[e][name] = None], d, e)

\* Evaluation.databaseToName
DatabaseToName(w, e, d) == w.databaseNames[e][d]

\* Evaluation.getDatabase
GetDatabase(w, e, name) == w.nameToDatabase[e][name]

\* Evaluation.error: the error reporter, or console.error
Error(w, e, kind) == Emit(w, "error", w.currentEvaluation[e].changes.round, kind)

-----------------------------------------------------------------------------
(* The block activation filter *)

\* the scan of one block over the commit, six slots at a time
BlockMatches(b, commit) ==
  \E k \in 0..Len(commit) :
     /\ 6 * k < Len(commit)
     /\ CheckerCheck(b, commit[6*k + 1], commit[6*k + 2], commit[6*k + 3], commit[6*k + 4])

\* the blocks of the databases dbs[i..], in database order then block order
RECURSIVE BlocksFromDatabases(_, _, _)
BlocksFromDatabases(dbs, i, commit) ==
  IF i > Len(dbs) THEN <<>>
  ELSE LET Active(b) == ~b.dormant /\ BlockMatches(b, commit)
       IN (IF DbNonExecuting(dbs[i]) THEN <<>> ELSE SelectSeq(DbBlocks(dbs[i]), Active))
          \o BlocksFromDatabases(dbs, i + 1, commit)

\* Evaluation.blocksFromCommit
BlocksFromCommit(w, e, commit) == BlocksFromDatabases(w.databases[e], 1, commit)

-----------------------------------------------------------------------------
(* The evaluation queue *)

\* a queued work item
CommitItem(commit) ==
  [type |-> "commit", commit |-> commit, actions |-> <<>>, changes |-> NewChanges,
   callback |-> "none", waitingFor |-> Undef, waitingCount |-> 0, seq |-> 0]
ActionsItem(actions, changes, callback) ==
  [type |-> "actions", commit |-> <<>>, actions |-> actions, changes |-> changes,
   callback |-> callback, waitingFor |-> Undef, waitingCount |-> 0, seq |-> 0]

\* Evaluation.processQueue: the body of the deferred callback is Drain
ProcessQueue(w, e) == [w EXCEPT !.ticks = Append(@, e)]

\* the test of queue(): nothing is in flight
QueueIdle(w, e) == ~w.queued[e] /\ ~IsSet(w.currentEvaluation[e])

\* Evaluation.queue
Queue(w, e, item) ==
  LET w1 == IF QueueIdle(w, e) THEN ProcessQueue(w, e) ELSE w
      it == [item EXCEPT !.waitingFor = EmptyMap, !.waitingCount = 0,
                         !.seq = w.enq[e] + 1]
  IN Emit([w1 EXCEPT !.evaluationQueue[e] = Append(@, it), !.enq[e] = @ + 1],
          "queue", it.seq, e)

\* Evaluation.executeActions
ExecuteActionsOp(w, e, actions, changes, callback) ==
  Queue(w, e, ActionsItem(actions, changes, callback))

\* the callback an item was queued with
UserCallback(w, e, user, changes) ==
  LET w1 == Emit(w, "callback", changes.round, e)
  IN IF user = "requeue"
     THEN ExecuteActionsOp(w1, e, RequeuedActions, NewChanges, "none")
     ELSE w1

\* `finished`, the callback processQueue hands to fixpoint
Finished(w, e, user, changes) ==
  LET w0 == Emit(w, "finished", changes.round, e)
      w1 == IF Len(w0.evaluationQueue[e]) > 0
            THEN ProcessQueue(w0, e)
            ELSE [w0 EXCEPT !.queued[e] = FALSE]
  IN IF user # "none" THEN UserCallback(w1, e, user, changes) ELSE w1

\* the loop of Database.onFixpoint over this.evaluations
RECURSIVE QueueOnPeers(_, _, _, _, _)
QueueOnPeers(w, evs, i, e, commit) ==
  IF i > Len(evs) THEN w
  ELSE QueueOnPeers(IF evs[i] # e THEN Queue(w, evs[i], CommitItem(commit)) ELSE w,
                    evs, i + 1, e, commit)

\* a hook that hands its part of the delta to the peers even when it is empty
DbOnFixpointAlways(w, d, e, changes) ==
  QueueOnPeers(Emit(w, "onFixpoint", Len(ChToCommitted(changes, {DatabaseToName(w, e, d)})) \div 6, d),
               w.evaluations[d], 1, e, ChToCommitted(changes, {DatabaseToName(w, e, d)}))

\* Database.onFixpoint
DbOnFixpoint(w, d, e, changes) ==
  LET name == DatabaseToName(w, e, d)
      commit == ChToCommitted(changes, {name})
      w1 == Emit(w, "onFixpoint", Len(commit) \div 6, d)
  IN IF Len(commit) = 0 THEN w1
     ELSE QueueOnPeers(w1, w1.evaluations[d], 1, e, commit)

\* the loop of _fixpointRound over this.databases
RECURSIVE OnFixpointAll(_, _, _, _, _)
OnFixpointAll(w, e, dbs, i, changes) ==
  IF i > Len(dbs) THEN w
  ELSE OnFixpointAll(DbOnFixpoint(w, dbs[i], e, changes), e, dbs, i + 1, changes)

-----------------------------------------------------------------------------
(* The fixpoint driver *)

\* the facts a block sees: the committed index behind the name "shared"
Visible(w, e) ==
  IF w.multiIndex[e]["shared"] = None THEN {} ELSE w.index[w.multiIndex[e]["shared"]]

\* a driver that runs rounds for as long as something changed
RoundGuardNoCap(changes) == changes.changed

\* the test that lets _fixpointRound run one more round
RoundGuard(changes) == changes.changed /\ changes.round < MAX_ROUNDS

\* a driver that reports the divergence one round late
DivergedGuardLate(changes) == changes.round > MAX_ROUNDS

\* the test that reports the divergence error
DivergedGuard(changes) == changes.round >= MAX_ROUNDS

\* the loop of _fixpointRound over the blocks of the round; a throw ends it
RECURSIVE RunBlocks(_, _, _, _)
RunBlocks(w, e, blocks, i) ==
  IF i > Len(blocks) \/ w.exc # None THEN w
  ELSE
    LET b == blocks[i]
        ce == w.currentEvaluation[e]
        w1 == IF b.remote
              THEN IF ~ce.waitingFor.defined
                   THEN Throw(Emit(w, "remote", ce.changes.round, b.id), "TypeError")
                   ELSE [Emit(w, "remote", ce.changes.round, b.id)
                           EXCEPT !.currentEvaluation[e].waitingFor.ids = @ \cup {b.id},
                                  !.currentEvaluation[e].waitingCount = @ + 1]
              ELSE w
        w2 == IF w1.exc # None THEN w1
              ELSE IF b.kind = "fail"
              THEN Throw(Emit(w1, "execute", ce.changes.round, b.id), "BlockFailure")
              ELSE [Emit(w1, "execute", ce.changes.round, b.id)
                      EXCEPT !.currentEvaluation[e].changes = BlockExecute(b, @, Visible(w1, e))]
    IN RunBlocks(w2, e, blocks, i + 1)

\* the divergence report of the completion branch
Report(w, e) ==
  IF DivergedGuard(w.currentEvaluation[e].changes) THEN Error(w, e, "Fixpoint Error") ELSE w

\* the completion branch hands the changes to every registered database
Notify(w, e) == OnFixpointAll(w, e, w.databases[e], 1, w.currentEvaluation[e].changes)

\* evaluation.callback(changes)
Callback(w, e) ==
  IF w.currentEvaluation[e].callback # "none"
  THEN Finished(w, e, w.currentEvaluation[e].user, w.currentEvaluation[e].changes)
  ELSE w

\* this.currentEvaluation = undefined
Clear(w, e) ==
  [Emit(w, "clear", w.currentEvaluation[e].changes.round, e)
     EXCEPT !.currentEvaluation[e] = NoEvaluation,
            !.ended = w.currentEvaluation[e].changes.final]

\* the else branch of _fixpointRound: the fixpoint ends
Complete(w, e) == Clear(Callback(Notify(Report(w, e), e), e), e)

\* changes.nextRound() at the head of a round
NextRound(w, e) ==
  Emit([w EXCEPT !.currentEvaluation[e].changes = ChNextRound(@)],
       "nextRound", w.currentEvaluation[e].changes.round + 1, e)

\* a round whose commit is handed to the registered databases at once
CommitRoundNotify(w, e, r) ==
  [w |-> Notify(Emit([w EXCEPT !.currentEvaluation[e].changes = r.changes, !.index = r.idx],
                     "commit", r.changes.round, Flag(r.changes)), e),
   blocks |-> BlocksFromCommit(w, e, r.commit),
   done |-> FALSE]

\* the commit r = changes.commit() of a round and the blocks it activates:
\* [w, blocks, done], the arguments of the next call of _fixpointRound
CommitRound(w, e, r) ==
  [w |-> Emit([w EXCEPT !.currentEvaluation[e].changes = r.changes, !.index = r.idx],
              "commit", r.changes.round, Flag(r.changes)),
   blocks |-> BlocksFromCommit(w, e, r.commit),
   done |-> FALSE]

\* the end of a round, after the loop over its blocks: a throw has ended the
\* call, or nothing is awaited and the round commits, or the round parks
RoundEnd(w, e, blocks) ==
  IF w.exc # None
  THEN [w |-> w, blocks |-> blocks, done |-> TRUE]
  ELSE IF w.currentEvaluation[e].waitingCount = 0
  THEN CommitRound(w, e, ChCommit(w.currentEvaluation[e].changes, w.multiIndex[e], w.index))
  ELSE [w |-> Emit(w, "park", w.currentEvaluation[e].changes.round, e),
        blocks |-> blocks, done |-> TRUE]

\* One call of _fixpointRound(evaluation, blocks), up to its recursive call.
\* s = [w, blocks, done]: done when the call returns without recursing.
FixpointRoundStep(s, e) ==
  LET w0 == [s.w EXCEPT !.currentEvaluation[e].waitingCount = 0]
  IN IF RoundGuard(w0.currentEvaluation[e].changes)
     THEN RoundEnd(RunBlocks(NextRound(w0, e), e, s.blocks, 1), e, s.blocks)
     ELSE [w |-> Complete(w0, e), blocks |-> s.blocks, done |-> TRUE]

\* n calls of _fixpointRound in sequence, or fewer when one returns
RECURSIVE Iterate(_, _, _)
Iterate(s, e, n) ==
  IF n = 0 \/ s.done THEN s
  ELSE IF n = 1 THEN FixpointRoundStep(s, e)
  ELSE Iterate(Iterate(s, e, n \div 2), e, n - (n \div 2))

\* a chain of calls that has not returned is recorded as "unfinished"
Returned(s, e) == IF s.done THEN s.w ELSE Emit(s.w, "unfinished", 0, e)

\* Evaluation._fixpointRound: the chain of recursive calls, MAX_ROUNDS + 2 of
\* them at most, from the arguments s = [w, blocks, done] of the first
FixpointRoundFrom(s, e) == Returned(Iterate(s, e, MAX_ROUNDS + 2), e)

\* Evaluation._fixpointRound(evaluation, blocks)
FixpointRound(w, e, blocks) ==
  FixpointRoundFrom([w |-> w, blocks |-> blocks, done |-> FALSE], e)

\* the object fixpoint() stores in currentEvaluation
NewEvaluation(changes, callback, user, seq) ==
  [type |-> "changes", changes |-> changes, callback |-> callback, user |-> user,
   waitingFor |-> Undef, waitingCount |-> 0, seq |-> seq]

\* a fixpoint that does not force its first round
FixpointNoForce(w, e, changes, blocks, callback, user, seq) ==
  FixpointRound(Emit([w EXCEPT !.currentEvaluation[e] =
                                  NewEvaluation(changes, callback, user, seq)],
                     "fixpoint", seq, user), e, blocks)

\* Evaluation.fixpoint
Fixpoint(w, e, changes, blocks, callback, user, seq) ==
  LET w1 == [w EXCEPT !.currentEvaluation[e] =
                         NewEvaluation([changes EXCEPT !.changed = TRUE], callback, user, seq)]
  IN FixpointRound(Emit(w1, "fixpoint", seq, user), e, blocks)

-----------------------------------------------------------------------------
(* The deferred drain *)

\* a drain that takes the newest item
ShiftLast(q) == [item |-> q[Len(q)], rest |-> SubSeq(q, 1, Len(q) - 1)]

\* evaluationQueue.shift()
Shift(q) == [item |-> Head(q), rest |-> Tail(q)]

\* a loop that stops after the first action of the item
RunActionsFirst(w, actions, i, changes) ==
  IF i > Len(actions) \/ w.exc # None THEN [w |-> w, changes |-> changes]
  ELSE IF actions[i].kind = "fail"
  THEN [w |-> Throw(Emit(w, "action", i, actions[i].kind), "ActionFailure"), changes |-> changes]
  ELSE [w |-> Emit(w, "action", i, actions[i].kind),
        changes |-> ChStore(changes, actions[i].scope, actions[i].f, "n1")]

\* the loop of the drain over the actions of the item: [w, changes]
RECURSIVE RunActions(_, _, _, _)
RunActions(w, actions, i, changes) ==
  IF i > Len(actions) \/ w.exc # None THEN [w |-> w, changes |-> changes]
  ELSE LET a == actions[i]
           w1 == Emit(w, "action", i, a.kind)
       IN IF a.kind = "fail"
          THEN [w |-> Throw(w1, "ActionFailure"), changes |-> changes]
          ELSE RunActions(w1, actions, i + 1, ChStore(changes, a.scope, a.f, "n1"))

\* a drain whose seed commit does not reach the indexes
ActionsCommittedNoIndex(w, e, item, r) ==
  Fixpoint(Emit(w, "commit", 0, Flag(r.changes)),
           e, r.changes, BlocksFromCommit(w, e, r.commit),
           "finished", item.callback, item.seq)

\* the actions branch of the drain after the commit r = changes.commit()
ActionsCommitted(w, e, item, r) ==
  Fixpoint(Emit([w EXCEPT !.index = r.idx], "commit", 0, Flag(r.changes)),
           e, r.changes, BlocksFromCommit(w, e, r.commit),
           "finished", item.callback, item.seq)

\* the actions branch of the drain after the loop over the actions
ActionsDone(ra, e, item) ==
  IF ra.w.exc # None THEN ra.w
  ELSE ActionsCommitted(ra.w, e, item, ChCommit(ra.changes, ra.w.multiIndex[e], ra.w.index))

\* the drain once it has taken an item: the commit branch, the actions branch
ProcessItem(w, e, item) ==
  IF item.type = "commit"
  THEN Fixpoint(w, e, NewChanges, BlocksFromCommit(w, e, item.commit),
                "finished", item.callback, item.seq)
  ELSE ActionsDone(RunActions(w, item.actions, 1, item.changes), e, item)

\* the callback processQueue hands to nextTick
Drain(w, e) ==
  IF Len(w.evaluationQueue[e]) = 0 THEN w
  ELSE
    LET sh == Shift(w.evaluationQueue[e])
    IN ProcessItem(Emit([w EXCEPT !.evaluationQueue[e] = sh.rest,
                                  !.started[e] = Append(@, sh.item.seq)],
                        "start", sh.item.seq, e),
                   e, sh.item)

-----------------------------------------------------------------------------
(* Remote blocks *)

\* the last awaited block has delivered: commit, and the rounds go on
Resume(w, e) ==
  IF w.currentEvaluation[e].waitingCount = 0
  THEN FixpointRoundFrom(
         CommitRound(w, e, ChCommit(w.currentEvaluation[e].changes, w.multiIndex[e], w.index)),
         e)
  ELSE w

\* evaluation.waitingFor[blockId] = false, the last statement of onRemoteChanges
ClearWaiting(w, e, blockId) ==
  IF w.exc # None \/ ~IsSet(w.currentEvaluation[e]) THEN w
  ELSE [w EXCEPT !.currentEvaluation[e].waitingFor.ids = @ \ {blockId}]

\* a delivery that is merged whether or not the block is awaited
OnRemoteChangesAny(w, e, blockId, infoChanges) ==
  IF ~IsSet(w.currentEvaluation[e])
  THEN Throw(w, "TypeError")
  ELSE ClearWaiting(
         Resume([w EXCEPT !.currentEvaluation[e].changes = ChMergeRound(@, infoChanges),
                          !.currentEvaluation[e].waitingCount = @ - 1], e),
         e, blockId)

\* Evaluation.onRemoteChanges
OnRemoteChangesOp(w, e, blockId, infoChanges) ==
  IF ~IsSet(w.currentEvaluation[e]) \/ ~w.currentEvaluation[e].waitingFor.defined
  THEN Throw(w, "TypeError")
  ELSE IF blockId \in w.currentEvaluation[e].waitingFor.ids
  THEN ClearWaiting(
         Resume([w EXCEPT !.currentEvaluation[e].changes = ChMergeRound(@, infoChanges),
                          !.currentEvaluation[e].waitingCount = @ - 1], e),
         e, blockId)
  ELSE Throw(w, "Error")

\* what a remote block delivers
RemoteResult == ChStore(NewChanges, "shared", H, "remote")

-----------------------------------------------------------------------------
(* The state machine *)

\* new Evaluation(), new Database()
Constructed ==
  [queued |-> [e \in Evals |-> FALSE],
   currentEvaluation |-> [e \in Evals |-> NoEvaluation],
   evaluationQueue |-> [e \in Evals |-> <<>>],
   databases |-> [e \in Evals |-> <<>>],
   databaseNames |-> [e \in Evals |-> [d \in DBs |-> None]],
   nameToDatabase |-> [e \in Evals |-> [n \in Names |-> None]],
   multiIndex |-> [e \in Evals |-> [n \in Names |-> None]],
   evaluations |-> [d \in DBs |-> <<>>],
   index |-> [d \in DBs |-> {}],
   ticks |-> <<>>, log |-> <<>>,
   started |-> [e \in Evals |-> <<>>], enq |-> [e \in Evals |-> 0],
   ended |-> <<>>, exc |-> None]

\* both evaluations register the two databases under the same names
Registered ==
  RegisterDatabase(
    RegisterDatabase(
      RegisterDatabase(
        RegisterDatabase(Constructed, "E1", "shared", "db1"),
        "E1", "other", "db2"),
      "E2", "shared", "db1"),
    "E2", "other", "db2")

Install(w) ==
  /\ queued' = w.queued
  /\ currentEvaluation' = w.currentEvaluation
  /\ evaluationQueue' = w.evaluationQueue
  /\ databases' = w.databases
  /\ databaseNames' = w.databaseNames
  /\ nameToDatabase' = w.nameToDatabase
  /\ multiIndex' = w.multiIndex
  /\ evaluations' = w.evaluations
  /\ index' = w.index
  /\ ticks' = w.ticks
  /\ log' = w.log
  /\ started' = w.started
  /\ enq' = w.enq
  /\ ended' = w.ended

Begin(op, e) == [World EXCEPT !.log = <<Event(op, 0, e)>>, !.ended = <<>>]

Init ==
  /\ queued = Registered.queued
  /\ currentEvaluation = Registered.currentEvaluation
  /\ evaluationQueue = Registered.evaluationQueue
  /\ databases = Registered.databases
  /\ databaseNames = Registered.databaseNames
  /\ nameToDatabase = Registered.nameToDatabase
  /\ multiIndex = Registered.multiIndex
  /\ evaluations = Registered.evaluations
  /\ index = Registered.index
  /\ ticks = <<>>
  /\ log = <<>>
  /\ started = Registered.started
  /\ enq = Registered.enq
  /\ ended = <<>>
  /\ calls = 0
  /\ deliveries = 0
  /\ regs = 0

\* a call of executeActions from outside
ExecuteActions(e, in) ==
  /\ calls < MaxCalls
  /\ calls' = calls + 1
  /\ UNCHANGED <<deliveries, regs>>
  /\ Install(ExecuteActionsOp(Begin("executeActions", e), e, in.actions, NewChanges, in.callback))

\* the oldest deferred callback runs
Tick ==
  /\ Len(ticks) > 0
  /\ UNCHANGED <<calls, deliveries, regs>>
  /\ LET e == Head(ticks)
     IN Install(Drain([Begin("drain", e) EXCEPT !.ticks = Tail(@)], e))

\* a delivery of remote changes
OnRemoteChanges(e, blockId) ==
  /\ deliveries < MaxDeliveries
  /\ deliveries' = deliveries + 1
  /\ UNCHANGED <<calls, regs>>
  /\ Install(OnRemoteChangesOp(Begin("onRemoteChanges", e), e, blockId, RemoteResult))

Next ==
  \/ \E e \in Evals, in \in Inputs : ExecuteActions(e, in)
  \/ Tick
  \/ \E e \in Evals, b \in {"remote", "derive"} : OnRemoteChanges(e, b)

Spec == Init /\ [][Next]_vars

-----------------------------------------------------------------------------
(* The same program with the registrations made by the caller: the state   *)
(* after construction, then registerDatabase, unregisterDatabase,          *)
(* executeActions and the deferred drains in any order.                    *)

RegInputs ==
  { Call(<<Store("shared", P)>>, "none"),
    Call(<<Store("other", Q)>>, "noop") }

InitReg ==
  /\ queued = Constructed.queued
  /\ currentEvaluation = Constructed.currentEvaluation
  /\ evaluationQueue = Constructed.evaluationQueue
  /\ databases = Constructed.databases
  /\ databaseNames = Constructed.databaseNames
  /\ nameToDatabase = Constructed.nameToDatabase
  /\ multiIndex = Constructed.multiIndex
  /\ evaluations = Constructed.evaluations
  /\ index = Constructed.index
  /\ ticks = <<>>
  /\ log = <<>>
  /\ started = Constructed.started
  /\ enq = Constructed.enq
  /\ ended = <<>>
  /\ calls = 0
  /\ deliveries = 0
  /\ regs = 0

\* a call of registerDatabase
Register(e, name, d) ==
  /\ regs < MaxRegs
  /\ regs' = regs + 1
  /\ UNCHANGED <<calls, deliveries>>
  /\ Install(RegisterDatabase(Begin("registerDatabase", e), e, name, d))

\* a call of unregisterDatabase
Unregister(e, name) ==
  /\ regs < MaxRegs
  /\ regs' = regs + 1
  /\ UNCHANGED <<calls, deliveries>>
  /\ Install(UnregisterDatabase(Begin("unregisterDatabase", e), e, name))

NextReg ==
  \/ \E e \in Evals, n \in Names, d \in DBs : Register(e, n, d)
  \/ \E e \in Evals, n \in Names : Unregister(e, n)
  \/ \E e \in Evals, in \in RegInputs : ExecuteActions(e, in)
  \/ Tick

SpecReg == InitReg /\ [][NextReg]_vars

-----------------------------------------------------------------------------
(* The same program with callers whose items each run one fixpoint to its   *)
(* end: no remote block, no failing block or action, no callback that       *)
(* enqueues.  A deferred callback that is pending is eventually run: the    *)
(* weak fairness of Tick, WF_vars(Tick), written out with the enabling      *)
(* condition of Tick, a pending deferred callback, in the place of ENABLED. *)

EchoInputs ==
  { in \in Inputs :
       /\ in.callback # "requeue"
       /\ \A k \in 1..Len(in.actions) :
             in.actions[k].kind = "store" /\ in.actions[k].f \notin {R, X} }

NextEcho ==
  \/ \E e \in Evals, in \in EchoInputs : ExecuteActions(e, in)
  \/ Tick

TickFair == []<>(Len(ticks) = 0) \/ []<><<Tick>>_vars

SpecEcho == Init /\ [][NextEcho]_vars /\ TickFair

-----------------------------------------------------------------------------
(* Reading the history of the handler that ran last *)

\* the evaluation the handler ran in
Handler == log[1].x
Has(ev) == \E i \in 1..Len(log) : log[i].ev = ev
Count(ev) == Cardinality({i \in 1..Len(log) : log[i].ev = ev})
LastEvent == log[Len(log)]
Threw(kind) == Len(log) > 0 /\ LastEvent = Event("throw", 0, kind)
IsRoundEvent(ev) == ev.ev \in {"nextRound", "commit"}
IsNextRound(ev) == ev.ev = "nextRound"
IsBlockEvent(ev) == ev.ev \in {"nextRound", "execute", "commit"}
IsHook(ev) == ev.ev = "onFixpoint"

-----------------------------------------------------------------------------
(* C1 *)

\* C1: at most one work item of an evaluation is active: a drain starts an
\* item only when currentEvaluation is not set, so that currentEvaluation is
\* never overwritten while it is set.
C1_OneActiveItem ==
  [][\A e \in Evals : started'[e] # started[e] => ~IsSet(currentEvaluation[e])]_vars

(* C2 *)

\* C2: the items of an evaluation are started in the order they were
\* enqueued, each at most once: the k-th item started is the k-th item
\* enqueued, and the items still queued are the ones enqueued after them, in
\* order.
C2_StartedInEnqueueOrder ==
  \A e \in Evals :
     /\ started[e] = [i \in 1..Len(started[e]) |-> i]
     /\ Len(started[e]) + Len(evaluationQueue[e]) = enq[e]
     /\ \A i \in 1..Len(evaluationQueue[e]) :
          evaluationQueue[e][i].seq = Len(started[e]) + i

\* three items of one evaluation were started, and one more is waiting
C2_Witness ==
  \E e \in Evals : Len(started[e]) >= 3 /\ Len(evaluationQueue[e]) >= 1

(* C3 *)

\* C3: no item stays in the queue with no drain scheduled: whenever the queue
\* of an evaluation is not empty, a deferred drain of that evaluation is
\* pending or an item is active whose end schedules one.
C3_NoItemStranded ==
  \A e \in Evals :
     Len(evaluationQueue[e]) > 0 =>
        \/ \E i \in 1..Len(ticks) : ticks[i] = e
        \/ IsSet(currentEvaluation[e])

(* C4 *)

\* C4: a fixpoint in which no collaborator fails ends: it runs at most
\* MAX_ROUNDS rounds, then either waits for the remote blocks of its round
\* or reaches the completion branch, where it reports the divergence error
\* if round reached MAX_ROUNDS with changed still true and clears
\* currentEvaluation.
C4_FixpointEnds ==
  (Has("fixpoint") /\ ~Threw("BlockFailure")) =>
     /\ Count("nextRound") <= MAX_ROUNDS
     /\ ~Has("unfinished")
     /\ \/ LastEvent.ev = "park"
        \/ /\ LastEvent.ev = "clear"
           /\ ~IsSet(currentEvaluation[Handler])
           /\ (\E i \in 1..Len(log) : log[i] = Event("commit", MAX_ROUNDS, "changed"))
                 => Has("error")

(* C5 *)

After(i) == SubSeq(log, i + 1, Len(log))
HooksAfter(i) == SelectSeq(After(i), IsHook)
PositionsAfter(i, ev) == {j \in (i + 1)..Len(log) : log[j].ev = ev}

\* C6: when a fixpoint reaches round = MAX_ROUNDS with changed still true,
\* "Fixpoint Error" is reported exactly once, no block is executed, no round
\* is entered and no commit is applied after that; the fixpoint hook of every
\* registered database is invoked, in order; then `finished` and the item's
\* callback, if it has one, are invoked with the change set; and
\* currentEvaluation is cleared.  What the rounds committed remains: the
\* triple the flip block put back in round MAX_ROUNDS is in the index.
C6_DivergenceReported ==
  \A i \in 1..Len(log) :
     log[i] = Event("commit", MAX_ROUNDS, "changed") =>
        /\ log[i + 1] = Event("error", MAX_ROUNDS, "Fixpoint Error")
        /\ Count("error") = 1
        /\ PositionsAfter(i, "execute") = {}
        /\ PositionsAfter(i, "nextRound") = {}
        /\ PositionsAfter(i, "commit") = {}
        /\ LET hooks == HooksAfter(i)
           IN /\ Len(hooks) = Len(databases[Handler])
              /\ \A k \in 1..Len(hooks) : hooks[k].x = databases[Handler][k]
        /\ \E f \in PositionsAfter(i, "finished") :
              /\ log[f].r = MAX_ROUNDS
              /\ \A h \in PositionsAfter(i, "onFixpoint") : h < f
              /\ \A fx \in 1..Len(log) :
                   (log[fx].ev = "fixpoint" /\ log[fx].x # "none") =>
                      \E c \in PositionsAfter(f, "callback") :
                         /\ log[c].r = MAX_ROUNDS
                         /\ PositionsAfter(f, "callback") = {c}
        /\ LastEvent = Event("clear", MAX_ROUNDS, Handler)
        /\ ~IsSet(currentEvaluation[Handler])
        /\ Has("execute") /\ T \in Visible(World, Handler)

\* a fixpoint of an item that has a callback diverged
C6_Witness ==
  /\ \E i \in 1..Len(log) : log[i] = Event("commit", MAX_ROUNDS, "changed")
  /\ \E i \in 1..Len(log) : log[i].ev = "fixpoint" /\ log[i].x = "noop"
  /\ Has("error") /\ Has("callback")

(* C7 *)

\* C7: "Fixpoint Error" is reported only for a fixpoint that diverged: one
\* whose last commit was that of round MAX_ROUNDS and left changed true.
C7_ErrorOnlyWhenDiverged ==
  \A i \in 1..Len(log) :
     log[i].ev = "error" =>
        Len(SelectSeq(log, IsRoundEvent)) > 0 /\
        SelectSeq(log, IsRoundEvent)[Len(SelectSeq(log, IsRoundEvent))]
           = Event("commit", MAX_ROUNDS, "changed")

(* C8 *)

\* C8: a round that executes a remote block parks the evaluation: the handler
\* returns with currentEvaluation set and waitingCount > 0, without a commit
\* and without a further nextRound.
C8_RemoteRoundParks ==
  \A i \in 1..Len(log) :
     log[i].ev = "remote" =>
        /\ LastEvent.ev = "park"
        /\ IsSet(currentEvaluation[Handler])
        /\ currentEvaluation[Handler].waitingCount > 0
        /\ PositionsAfter(i, "commit") = {}
        /\ PositionsAfter(i, "nextRound") = {}

(* C9 *)

\* C9: when the execute of a block or of an action fails and the failure
\* escapes the drain, currentEvaluation is cleared.
C9_SlotClearedAfterFailure ==
  (Threw("BlockFailure") \/ Threw("ActionFailure")) =>
     ~IsSet(currentEvaluation[Handler])

(* C10 *)

\* the queue events of the log that the fixpoint hook of database d made for
\* evaluation p: the ones that follow an onFixpoint event of d directly
HookOf(i) ==
  LET j == CHOOSE j \in 1..(i - 1) :
              /\ log[j].ev # "queue"
              /\ \A k \in (j + 1)..(i - 1) : log[k].ev = "queue"
  IN log[j]
CommitsTo(d, p) ==
  Cardinality({i \in 2..Len(log) :
     log[i].ev = "queue" /\ log[i].x = p /\ HookOf(i).ev = "onFixpoint" /\ HookOf(i).x = d})

\* the part of the net delta of the fixpoint that went into database d
Portion(d) ==
  {i \in 1..Len(ended) : ended[i].net # 0 /\ multiIndex[Handler][ended[i].scope] = d}

\* C10: when a fixpoint of evaluation E ends, every database registered in E
\* whose part of the net delta is not empty appends exactly one Commit item
\* to the queue of every other evaluation registered with it, and none to
\* E's; a database whose part is empty appends nothing.
C10_OneCommitPerPeer ==
  Has("clear") =>
     \A d \in SeqToSet(databases[Handler]), p \in Evals :
        CommitsTo(d, p) =
           IF p # Handler /\ p \in SeqToSet(evaluations[d]) /\ Portion(d) # {}
           THEN 1 ELSE 0

(* C11 *)

\* the queue events of the log that append a Commit item: the ones a fixpoint
\* hook made
CommitQueued == {i \in 2..Len(log) : log[i].ev = "queue" /\ HookOf(i).ev = "onFixpoint"}

\* C11: a Commit item is appended to the queue of a peer only in the step in
\* which the fixpoint it comes from ends, after the last commit of that
\* fixpoint: no round, block, commit or wait follows it, and the step ends
\* with currentEvaluation cleared.
C11_CommitItemsAtEnd ==
  \A i \in CommitQueued :
     /\ log[i].x # Handler
     /\ \E c \in 1..(i - 1) : log[c].ev = "commit"
     /\ PositionsAfter(i, "commit") = {}
     /\ PositionsAfter(i, "nextRound") = {}
     /\ PositionsAfter(i, "execute") = {}
     /\ PositionsAfter(i, "remote") = {}
     /\ PositionsAfter(i, "park") = {}
     /\ LastEvent.ev = "clear"
     /\ ~IsSet(currentEvaluation[Handler])

\* a fixpoint of several rounds ended and appended a Commit item to a peer
C11_Witness ==
  /\ CommitQueued # {}
  /\ Count("nextRound") >= 2
  /\ Count("commit") >= 3

(* C12 *)

\* the evaluation is parked between rounds, awaiting remote blocks
Parked(ce) == IsSet(ce) /\ ce.waitingCount > 0

\* a Commit item is waiting in the queue
CommitPending(q) == \E i \in 1..Len(q) : q[i].type = "commit"

\* C12: what one evaluation commits to a shared database reaches a peer only
\* through the Commit items queued on it: a step of another evaluation that
\* leaves the peer parked, or with a Commit item pending, leaves the index
\* the peer reads through its multi-index as it was.
C12_PeerIndexUntouched ==
  [][\A e2 \in Evals, n \in Names :
       ( /\ log'[1].x # e2
         /\ multiIndex[e2][n] # None
         /\ multiIndex'[e2][n] = multiIndex[e2][n]
         /\ (Parked(currentEvaluation'[e2]) \/ CommitPending(evaluationQueue'[e2])) )
       => index'[multiIndex[e2][n]] = index[multiIndex[e2][n]]]_vars

(* C13 *)

\* the facts the fixpoint that just ended added, on balance, under the name n
AddedUnder(n) == {ended[i].f : i \in {j \in 1..Len(ended) : ended[j].scope = n /\ ended[j].net > 0}}

\* the evaluation has nothing left to replay
Drained(e) ==
  /\ evaluationQueue[e] = <<>>
  /\ ~IsSet(currentEvaluation[e])
  /\ \A i \in 1..Len(ticks) : ticks[i] # e

NoneAwaited(ce) == ~IsSet(ce) \/ ~ce.waitingFor.defined \/ ce.waitingFor.ids = {}

\* C14: a delivery of remote changes for a block that is not awaited (no
\* item is active, or the active item awaits no block) raises an error and
\* changes nothing: the change set, waitingCount, waitingFor and the round of
\* the active item, the indexes and the queues are as they were, and no
\* round or commit runs.
C14_UnawaitedDeliveryRejected ==
  [][(deliveries' # deliveries /\ NoneAwaited(currentEvaluation[log'[1].x])) =>
        /\ log'[1].ev = "onRemoteChanges"
        /\ log'[Len(log')].ev = "throw"
        /\ \A i \in 1..Len(log') : log'[i].ev \notin {"commit", "nextRound", "execute"}
        /\ currentEvaluation' = currentEvaluation
        /\ index' = index
        /\ evaluationQueue' = evaluationQueue
        /\ ticks' = ticks]_vars

\* remote changes were delivered to an evaluation whose active item does not
\* await the block, and the delivery was rejected
C14_Witness ==
  /\ Len(log) > 0
  /\ log[1].ev = "onRemoteChanges"
  /\ LastEvent.ev = "throw"
  /\ IsSet(currentEvaluation[Handler])
  /\ currentEvaluation[Handler].changes.round > 0

(* C15 *)

\* C15: when an Actions item that has a callback is drained and no block or
\* action fails, the callback is invoked exactly once, with the change set of
\* the item, after the last round of the fixpoint and after the fixpoint hook
\* of every registered database; the step ends with currentEvaluation
\* cleared.
C15_CallbackOnce ==
  \A fx \in 1..Len(log) :
     ( /\ log[fx].ev = "fixpoint"
       /\ log[fx].x # "none"
       /\ ~Threw("BlockFailure") )
     => /\ Count("callback") = 1
        /\ \E c \in PositionsAfter(fx, "callback") :
              /\ \A k \in 1..Len(log) : IsRoundEvent(log[k]) => k < c /\ log[k].r <= log[c].r
              /\ \E k \in 1..(c - 1) : log[k] = Event("nextRound", log[c].r, Handler)
              /\ PositionsAfter(c, "execute") = {}
              /\ PositionsAfter(c, "onFixpoint") = {}
              /\ Len(SelectSeq(log, IsHook)) = Len(databases[Handler])
        /\ LastEvent.ev = "clear"
        /\ ~IsSet(currentEvaluation[Handler])

(* C16 *)

\* the blocks the seed commit of an Actions item activates in evaluation e:
\* the blocks, not dormant, of the executing databases of e that accept the
\* attribute of a fact an action adds to an index
SeedBlocks(e, item) ==
  {b.id : b \in {c \in UNION {SeqToSet(DbBlocks(d)) :
                                 d \in {x \in SeqToSet(databases[e]) : ~DbNonExecuting(x)}} :
       /\ ~c.dormant
       /\ \E k \in 1..Len(item.actions) :
             /\ multiIndex[e][item.actions[k].scope] # None
             /\ item.actions[k].f \notin index[multiIndex[e][item.actions[k].scope]]
             /\ item.actions[k].f[1] \in c.attrs}}

\* the positions of the log l at which a block of round 1 is run
FirstRound(l) == {i \in 1..Len(l) : l[i].ev \in {"execute", "remote"} /\ l[i].r = 1}

\* C16: a drain that takes an Actions item none of whose actions fails runs
\* all the actions of the item, in list order, then commits exactly once,
\* then starts the fixpoint: no block is run before the last action, the
\* one commit of the seed comes before round 1, and the blocks of round 1
\* are the ones the activation filter selects for that commit, each once.
C16_ActionsThenOneCommit ==
  [][\A e \in Evals :
       ( /\ started'[e] # started[e]
         /\ Len(evaluationQueue[e]) > 0
         /\ Head(evaluationQueue[e]).type = "actions"
         /\ \A k \in 1..Len(Head(evaluationQueue[e]).actions) :
               Head(evaluationQueue[e]).actions[k].kind = "store" )
       => LET item == Head(evaluationQueue[e])
              n == Len(item.actions)
              l == log'
          IN /\ Len(l) >= n + 5
             /\ \A k \in 1..n : l[2 + k] = Event("action", k, "store")
             /\ \A i \in 1..Len(l) : l[i].ev = "action" => i \in 3..(n + 2)
             /\ l[n + 3].ev = "commit" /\ l[n + 3].r = 0
             /\ \A i \in 1..Len(l) : (l[i].ev = "commit" /\ l[i].r = 0) => i = n + 3
             /\ l[n + 4].ev = "fixpoint"
             /\ l[n + 5] = Event("nextRound", 1, e)
             /\ \A i \in 1..Len(l) : l[i].ev \in {"execute", "remote"} => i > n + 5
             /\ {l[i].x : i \in FirstRound(l)} \subseteq SeedBlocks(e, item)
             /\ \A i, j \in FirstRound(l) : l[i].x = l[j].x => i = j
             /\ (l[Len(l)].ev # "throw") =>
                   {l[i].x : i \in FirstRound(l)} = SeedBlocks(e, item)]_vars

\* a drain ran the two actions of an item, committed once and ran the block
\* the seed activates
C16_Witness ==
  /\ Count("action") = 2
  /\ \E i \in 1..Len(log) : log[i].ev = "commit" /\ log[i].r = 0
  /\ \E i \in 1..Len(log) : log[i] = Event("execute", 1, "derive")
  /\ LastEvent.ev = "clear"

(* C17 *)

\* the place of a block in database order then block order
DbOf(id) == CHOOSE d \in DBs : \E i \in 1..Len(DbBlocks(d)) : DbBlocks(d)[i].id = id
PlaceIn(d, id) == CHOOSE i \in 1..Len(DbBlocks(d)) : DbBlocks(d)[i].id = id
Rank(e, id) == IndexOf(databases[e], DbOf(id)) * (Len(DbBlocks(DbOf(id))) + 1) + PlaceIn(DbOf(id), id)
IsFirstRound(ev) == ev.ev \in {"execute", "remote"} /\ ev.r = 1

\* C17: blocksFromCommit returns exactly the blocks that are not dormant,
\* whose database is not flagged nonExecuting, and whose checker accepts
\* a changed triple of the commit; each of them once, in database order then
\* block order; an empty commit gives no block.  Stated of the blocks that
\* round 1 runs for the seed commit of an Actions item.
C17_FilterExact ==
  [][\A e \in Evals :
       ( /\ started'[e] # started[e]
         /\ Len(evaluationQueue[e]) > 0
         /\ Head(evaluationQueue[e]).type = "actions"
         /\ \A k \in 1..Len(Head(evaluationQueue[e]).actions) :
               Head(evaluationQueue[e]).actions[k].kind = "store"
         /\ log'[Len(log')].ev # "throw" )
       => LET ran == SelectSeq(log', IsFirstRound)
          IN /\ {ran[i].x : i \in 1..Len(ran)} = SeedBlocks(e, Head(evaluationQueue[e]))
             /\ \A i, j \in 1..Len(ran) : ran[i].x = ran[j].x => i = j
             /\ \A i, j \in 1..Len(ran) : i < j => Rank(e, ran[i].x) < Rank(e, ran[j].x)]_vars

(* C18 *)

\* C18: from any state, registerDatabase(name, db) on evaluation e with a
\* name e already has raises an error and leaves the database list of e, its
\* two name maps, its multi-index and the evaluations of every database as
\* they are; with a name e does not have it raises nothing, and afterwards
\* getDatabase(name) is db, databaseToName(db) is name, the multi-index has
\* db under name, db is the last of the database list and e is among the
\* evaluations of db.
C18_RegisterChecksName ==
  \A e \in Evals, name \in Names, d \in DBs :
     LET w == RegisterDatabase(World, e, name, d)
     IN IF nameToDatabase[e][name] # None
        THEN /\ w.exc = "Error"
             /\ w.databases = databases
             /\ w.databaseNames = databaseNames
             /\ w.nameToDatabase = nameToDatabase
             /\ w.multiIndex = multiIndex
             /\ w.evaluations = evaluations
        ELSE /\ w.exc = None
             /\ GetDatabase(w, e, name) = d
             /\ DatabaseToName(w, e, d) = name
             /\ w.multiIndex[e][name] = d
             /\ w.databases[e] = Append(databases[e], d)
             /\ e \in SeqToSet(w.evaluations[d])
             /\ \A x \in Evals \ {e} : w.nameToDatabase[x] = nameToDatabase[x]

\* a registerDatabase call was rejected: the name was in use
C18_Witness ==
  /\ Len(log) > 0
  /\ log[1].ev = "registerDatabase"
  /\ Threw("Error")
  /\ \E name \in Names : nameToDatabase[Handler][name] # None

(* C19 *)

\* the rounds of the fixpoint whose commit changed an index
ChangingRounds == {log[i].r : i \in {j \in 1..Len(log) : log[j].ev = "commit" /\ log[j].r >= 1
                                                         /\ log[j].x = "changed"}}
Diverged == \E i \in 1..Len(log) : log[i] = Event("commit", MAX_ROUNDS, "changed")

\* C19: a fixpoint that ends without diverging ends with changed false and
\* with round one more than its last round whose commit changed an index (0
\* if there is none): its last commit is that of round `round` and changes
\* nothing.  At least one round is run, also for an empty seed; a fixpoint
\* none of whose rounds runs a block ends with round 1.
C19_FinalRound ==
  (Has("fixpoint") /\ Has("clear") /\ ~Diverged) =>
     LET last == LastEvent.r
         rc == SelectSeq(log, IsRoundEvent)
     IN /\ LastEvent = Event("clear", last, Handler)
        /\ last >= 1
        /\ Count("nextRound") = last
        /\ rc[Len(rc)] = Event("commit", last, "quiet")
        /\ last = 1 + (IF ChangingRounds = {} THEN 0
                    ELSE CHOOSE r \in ChangingRounds : \A q \in ChangingRounds : q <= r)
        /\ (~Has("execute")) => last = 1

\* a seed triggered one derivation: round 1 ran the block and changed the
\* index, round 2 changed nothing, and the fixpoint ended with round 2
C19_Witness ==
  /\ Has("fixpoint")
  /\ \E i \in 1..Len(log) : log[i] = Event("execute", 1, "derive")
  /\ ChangingRounds = {1}
  /\ LastEvent = Event("clear", 2, Handler)

(* C20 *)

\* C20: the active item of an evaluation carries a waitingFor map; a remote
\* block that a round runs is recorded in it as awaited; and whenever the
\* evaluation is parked, waitingCount is the number of block ids the map
\* holds as awaited.
C20_WaitingForCarried ==
  /\ \A e \in Evals :
        IsSet(currentEvaluation[e]) =>
           /\ currentEvaluation[e].waitingFor.defined
           /\ Parked(currentEvaluation[e]) =>
                 currentEvaluation[e].waitingCount =
                    Cardinality(currentEvaluation[e].waitingFor.ids)
  /\ \A i \in 1..Len(log) :
        (log[i].ev = "remote" /\ IsSet(currentEvaluation[Handler])) =>
           log[i].x \in currentEvaluation[Handler].waitingFor.ids

(* C21 *)

\* the number of times x is in the sequence s
Occurrences(s, x) == Cardinality({i \in 1..Len(s) : s[i] = x})

\* C21: after registerDatabase and unregisterDatabase calls that raise no
\* error, the registration state of every evaluation is consistent: a name
\* maps to a database exactly when the multi-index has that database under
\* the name; a database a name maps to is in the database list, its
\* databaseToName is a name that maps back to it, and the evaluation is among
\* its evaluations, once; and a database is in the list, and the evaluation
\* among its evaluations, only when a name maps to it.
C21_RegistrationConsistent ==
  (Len(log) > 0 => LastEvent.ev # "throw") =>
  \A e \in Evals :
     /\ \A n \in Names : multiIndex[e][n] = nameToDatabase[e][n]
     /\ \A n \in Names, d \in DBs :
          GetDatabase(World, e, n) = d =>
             /\ d \in SeqToSet(databases[e])
             /\ DatabaseToName(World, e, d) # None
             /\ GetDatabase(World, e, DatabaseToName(World, e, d)) = d
             /\ Occurrences(evaluations[d], e) = 1
     /\ \A d \in DBs :
          (d \in SeqToSet(databases[e]) \/ e \in SeqToSet(evaluations[d])) =>
             \E n \in Names : GetDatabase(World, e, n) = d

(* C22 *)

\* the handler that ran last replayed a Commit item to the end of its fixpoint
Replayed ==
  /\ Len(log) > 0
  /\ log[1].ev = "drain"
  /\ Has("fixpoint")
  /\ \A i \in 1..Len(log) : ~(log[i].ev = "commit" /\ log[i].r = 0)
  /\ LastEvent.ev = "clear"

\* a replay whose net delta for a database is empty appends no Commit item
\* for that database to any queue
NoEchoBack ==
  Replayed =>
     \A d \in SeqToSet(databases[Handler]), p \in Evals :
        Portion(d) = {} => CommitsTo(d, p) = 0

\* every queue is empty, no item is active and no deferred drain is pending
Quiet ==
  /\ ticks = <<>>
  /\ \A e \in Evals : evaluationQueue[e] = <<>> /\ ~IsSet(currentEvaluation[e])

\* C22: the fan-out of commits between evaluations that share a database
\* does not echo forever: a replay of a Commit item that ends with an empty
\* net delta for the shared database appends no Commit item back, and from
\* every state the evaluations come to rest, with every queue empty and
\* every evaluation idle.
C22_FanOutSettles == []NoEchoBack /\ ((~Quiet) ~> Quiet)

\* a peer replayed a Commit item, its replay changed nothing and appended no
\* Commit item, and every evaluation is at rest
C22_Witness ==
  /\ Replayed
  /\ Has("execute")
  /\ ended = <<>>
  /\ CommitQueued = {}
  /\ Quiet

====
